---- MODULE Spec2Model ----
(***************************************************************************)
(* Model of tcp-rs: the TCB state machine of src/src/tcp.rs driven by the  *)
(* dispatch loop of src/src/main.rs.                                       *)
(*                                                                         *)
(* u32 values are kept at their full width.  TLC integers are 32-bit       *)
(* signed, so a u32 is a record [hi, lo] of two 16-bit halves and all the  *)
(* arithmetic below is carried out on the halves, modulo 2^32.             *)
(***************************************************************************)
EXTENDS Integers, Sequences, FiniteSets, TLC

VARIABLES connections, pc, buf, last, probe, wire

vars == <<connections, pc, buf, last, probe, wire>>

(***************************************************************************)
(* u32 arithmetic                                                          *)
(***************************************************************************)
B16 == 2^16

U32(h, l) == [hi |-> h, lo |-> l]

\* a u32 from a natural number below 2^31
N32(n) == [hi |-> n \div B16, lo |-> n % B16]

U32_MAX == U32(B16 - 1, B16 - 1)

\* u32::wrapping_add
wrapping_add(a, b) ==
    LET s == a.lo + b.lo
    IN  [hi |-> (a.hi + b.hi + (s \div B16)) % B16, lo |-> s % B16]

\* u32::wrapping_sub
wrapping_sub(a, b) ==
    LET d == a.lo - b.lo
        borrow == IF d < 0 THEN 1 ELSE 0
    IN  [hi |-> (a.hi - b.hi - borrow + 2 * B16) % B16, lo |-> (d + B16) % B16]

\* Ord::cmp on u32: the ordering of a relative to b
cmp(a, b) ==
    IF a.hi < b.hi THEN "Less"
    ELSE IF a.hi > b.hi THEN "Greater"
    ELSE IF a.lo < b.lo THEN "Less"
    ELSE IF a.lo > b.lo THEN "Greater"
    ELSE "Equal"

Lt32(a, b) == cmp(a, b) = "Less"
Le32(a, b) == cmp(a, b) # "Greater"
Gt32(a, b) == cmp(a, b) = "Greater"
Ge32(a, b) == cmp(a, b) # "Less"

(***************************************************************************)
(* is_between_values_wrapped (tcp.rs 360-377): start < value < end in      *)
(* wrapping arithmetic.                                                    *)
(***************************************************************************)
is_between_values_wrapped_closed_end(value, start, end) ==
    LET ord == cmp(start, value)
    IN  IF ord = "Equal" THEN FALSE
        ELSE IF ord = "Less"
             THEN ~(Ge32(end, start) /\ Lt32(end, value))
             ELSE Gt32(end, value) /\ Lt32(end, start)

is_between_values_wrapped(value, start, end) ==
    LET ord == cmp(start, value)
    IN  IF ord = "Equal" THEN FALSE
        ELSE IF ord = "Less"
             THEN ~(Ge32(end, start) /\ Le32(end, value))
             ELSE Gt32(end, value) /\ Lt32(end, start)

(***************************************************************************)
(* Bounds of the model and the input sets drawn from them                  *)
(***************************************************************************)
\* acknowledgement numbers 0..MaxAck of incoming segments
MaxAck == 2
\* sequence numbers IRS..IRS+MaxSeqOff of incoming segments
MaxSeqOff == 2
\* payload lengths of incoming segments are multiples of 4 up to 4*MaxWords
MaxWords == 1

\* the one connection key followed (connections are independent: every
\* operation reads and writes a single map entry)
Keys == {"peer:4000->us:80"}

\* peer initial sequence numbers: S1's 1000 and the largest u32
PeerISS == {N32(1000), U32_MAX}

\* windows advertised by the peer
WndVals == {0, 2}

SeqOffsets == 0..MaxSeqOff

\* 0..MaxAck, S2's 9999 and ISS - 1
AckVals == {N32(n) : n \in 0..MaxAck} \cup {N32(9999), U32_MAX}

LenVals == {4 * w : w \in 0..MaxWords}

\* the result of the Iface::send call of one operation (no operation
\* reaches a second call)
NicResults == {<<TRUE>>, <<FALSE>>}

Segment(seq, ackn, wnd, syn, ack, fin, rst, len) ==
    [seq |-> seq, ackn |-> ackn, wnd |-> wnd,
     syn |-> syn, ack |-> ack, fin |-> fin, rst |-> rst, len |-> len]

\* the first segment of a flow: any flags, sequence number drawn from PeerISS
FirstSegments ==
    {Segment(seq, N32(0), wnd, syn, ack, fin, rst, 0) :
        seq \in PeerISS, wnd \in WndVals,
        syn \in BOOLEAN, ack \in BOOLEAN, fin \in BOOLEAN, rst \in BOOLEAN}

\* later segments of a flow whose initial receive sequence number is irs
NextSegments(irs) ==
    {Segment(wrapping_add(irs, N32(d)), ackn, 2, syn, ack, fin, rst, len) :
        d \in SeqOffsets, ackn \in AckVals,
        syn \in BOOLEAN, ack \in BOOLEAN, fin \in BOOLEAN, rst \in BOOLEAN,
        len \in LenVals}

(***************************************************************************)
(* Program constants                                                       *)
(***************************************************************************)
ETH_MTU == 1500
SND_WND == 1024
IP_TTL == 64
\* header lengths without options (etherparse header_len)
IP_HEADER_LEN == 20
TCP_HEADER_LEN == 20

ISS == N32(0)

NoTcb == [state |-> "None"]

States == {"SynRcvd", "Estab", "FinWait1", "FinWait2", "TimeWait"}

\* State::is_synchronised (tcp.rs 389-396)
is_synchronised(state) ==
    CASE state = "SynRcvd" -> FALSE
      [] state \in {"Estab", "FinWait1", "FinWait2", "TimeWait"} -> TRUE

Min(a, b) == IF a < b THEN a ELSE b

(***************************************************************************)
(* The device: Iface::send either writes the datagram or fails.            *)
(***************************************************************************)
Nic(results) == [results |-> results, calls |-> 0, sent |-> <<>>]

\* a call past the drawn results gets the answer of the last one drawn
nic_send(nic, response) ==
    LET n == nic.calls + 1
        ok == nic.results[Min(n, Len(nic.results))]
    IN  [nic |-> [nic EXCEPT !.calls = n,
                             !.sent = IF ok THEN Append(@, response) ELSE @],
         ok |-> ok]

(***************************************************************************)
(* Tcb::write (tcp.rs 227-276).  The sequence and acknowledgement numbers  *)
(* of the header template are assigned from SND.NXT and RCV.NXT at 230-231 *)
(* before every serialisation and read nowhere else, so the template only  *)
(* keeps the fields that outlive a write: the flags and the window.  The   *)
(* checksum (241-243) is not modelled.                                     *)
(***************************************************************************)
write_keeps_fin(tcb, nic, payload_len) ==
    LET h1 == tcb.send_tcp_header
        sequence_number == tcb.send.nxt
        acknowledgment_number == tcb.recv.nxt
        size == Min(ETH_MTU, TCP_HEADER_LEN + IP_HEADER_LEN + payload_len)
        ip == [tcb.send_ip_header EXCEPT !.payload_len = size - IP_HEADER_LEN]
        payload_bytes == Min(payload_len, ETH_MTU - IP_HEADER_LEN - TCP_HEADER_LEN)
        response == Segment(sequence_number, acknowledgment_number,
                            h1.window_size, h1.syn, h1.ack, h1.fin, h1.rst,
                            payload_bytes)
        nxt1 == wrapping_add(tcb.send.nxt, N32(payload_bytes))
        nxt2 == IF h1.syn THEN wrapping_add(nxt1, N32(1)) ELSE nxt1
        nxt3 == IF h1.fin THEN wrapping_add(nxt2, N32(1)) ELSE nxt2
        h2 == [h1 EXCEPT !.syn = FALSE]
        t == [tcb EXCEPT !.send_tcp_header = h2, !.send_ip_header = ip,
                         !.send.nxt = nxt3]
        s == nic_send(nic, response)
    IN  [tcb |-> t, nic |-> s.nic, res |-> IF s.ok THEN "Ok" ELSE "Err",
         payload_bytes |-> payload_bytes]

write(tcb, nic, payload_len) ==
    LET \* 230-231
        h1 == tcb.send_tcp_header
        sequence_number == tcb.send.nxt
        acknowledgment_number == tcb.recv.nxt
        \* 233-239
        size == Min(ETH_MTU, TCP_HEADER_LEN + IP_HEADER_LEN + payload_len)
        ip == [tcb.send_ip_header EXCEPT !.payload_len = size - IP_HEADER_LEN]
        \* 249-257: headers, then as much payload as the buffer still holds
        payload_bytes == Min(payload_len, ETH_MTU - IP_HEADER_LEN - TCP_HEADER_LEN)
        response == Segment(sequence_number, acknowledgment_number,
                            h1.window_size, h1.syn, h1.ack, h1.fin, h1.rst,
                            payload_bytes)
        \* 259-269
        nxt1 == wrapping_add(tcb.send.nxt, N32(payload_bytes))
        nxt2 == IF h1.syn THEN wrapping_add(nxt1, N32(1)) ELSE nxt1
        nxt3 == IF h1.fin THEN wrapping_add(nxt2, N32(1)) ELSE nxt2
        h2 == [h1 EXCEPT !.syn = FALSE, !.fin = FALSE]
        t == [tcb EXCEPT !.send_tcp_header = h2, !.send_ip_header = ip,
                         !.send.nxt = nxt3]
        \* 271: the TCB is already updated when the send can fail
        s == nic_send(nic, response)
    IN  [tcb |-> t, nic |-> s.nic, res |-> IF s.ok THEN "Ok" ELSE "Err",
         payload_bytes |-> payload_bytes]

\* Tcb::send_rst (tcp.rs 278-287); no code path calls it
send_rst(tcb, nic) ==
    LET \* 282-283 zero the sequence and acknowledgement numbers, which
        \* write then overwrites (230-231)
        h == [tcb.send_tcp_header EXCEPT !.rst = TRUE]
        w == write([tcb EXCEPT !.send_tcp_header = h], nic, 0)
    IN  [tcb |-> w.tcb, nic |-> w.nic, res |-> w.res]

(***************************************************************************)
(* Tcb::is_segment_valid (tcp.rs 312-354): the acceptability test, and the *)
(* assignment to RCV.NXT that follows it whatever the test says.           *)
(***************************************************************************)
seg_len(seg) ==
    seg.len + (IF seg.fin THEN 1 ELSE 0) + (IF seg.syn THEN 1 ELSE 0)

segment_test_first_only(recv, seg) ==
    LET seqn == seg.seq
        slen == seg_len(seg)
        window == wrapping_add(recv.nxt, N32(recv.wnd))
        lower == wrapping_sub(recv.nxt, N32(1))
    IN  IF slen = 0
        THEN IF recv.wnd = 0
             THEN seqn = recv.nxt
             ELSE is_between_values_wrapped(seqn, lower, window)
        ELSE IF recv.wnd = 0
             THEN FALSE
             ELSE is_between_values_wrapped(seqn, lower, window)

\* 313-346
segment_test(recv, seg) ==
    LET seqn == seg.seq
        slen == seg_len(seg)
        window == wrapping_add(recv.nxt, N32(recv.wnd))
        lower == wrapping_sub(recv.nxt, N32(1))
    IN  IF slen = 0
        THEN IF recv.wnd = 0
             THEN seqn = recv.nxt
             ELSE is_between_values_wrapped(seqn, lower, window)
        ELSE IF recv.wnd = 0
             THEN FALSE
             ELSE \/ is_between_values_wrapped(seqn, lower, window)
                  \/ is_between_values_wrapped(
                         wrapping_add(seqn, N32(slen - 1)), lower, window)

is_segment_valid(tcb, seg) ==
    [is_valid |-> segment_test(tcb.recv, seg),
     \* 348
     tcb |-> [tcb EXCEPT !.recv.nxt = wrapping_add(seg.seq, N32(seg_len(seg)))]]

(***************************************************************************)
(* Tcb::accept_connection (tcp.rs 82-160).  checks is the build's          *)
(* overflow-checks setting: line 106 adds with `+`, which panics on        *)
(* overflow when the checks are compiled in and wraps when they are not.   *)
(***************************************************************************)
\* 101-155: the TCB built from the peer's SYN
new_tcb_keeps_own_window(seg) ==
    LET iss == ISS
        wnd == SND_WND
        recv == [irs |-> seg.seq,
                 nxt |-> wrapping_add(seg.seq, N32(1)),
                 wnd |-> wnd,
                 up |-> FALSE]
        send == [iss |-> iss, una |-> iss, nxt |-> iss, wnd |-> wnd,
                 up |-> FALSE, wl1 |-> N32(0), wl2 |-> N32(0)]
    IN  [state |-> "SynRcvd", send |-> send, recv |-> recv,
         send_ip_header |-> [payload_len |-> TCP_HEADER_LEN, ttl |-> IP_TTL],
         send_tcp_header |-> [window_size |-> send.wnd,
                              syn |-> TRUE, ack |-> TRUE,
                              fin |-> FALSE, rst |-> FALSE]]

new_tcb(seg) ==
    LET iss == ISS
        wnd == SND_WND
        recv == [irs |-> seg.seq,
                 nxt |-> wrapping_add(seg.seq, N32(1)),
                 wnd |-> seg.wnd,
                 up |-> FALSE]
        send == [iss |-> iss, una |-> iss, nxt |-> iss, wnd |-> wnd,
                 up |-> FALSE, wl1 |-> N32(0), wl2 |-> N32(0)]
    IN  [state |-> "SynRcvd", send |-> send, recv |-> recv,
         send_ip_header |-> [payload_len |-> TCP_HEADER_LEN, ttl |-> IP_TTL],
         send_tcp_header |-> [window_size |-> send.wnd,
                              syn |-> TRUE, ack |-> TRUE,
                              fin |-> FALSE, rst |-> FALSE]]

\* 157-159
accept_syn(seg, nic) ==
    LET w == write(new_tcb(seg), nic, 0)
    IN  IF w.res = "Err"
        THEN [res |-> "Err", tcb |-> NoTcb, nic |-> w.nic]
        ELSE [res |-> "Ok", tcb |-> w.tcb, nic |-> w.nic]

accept_connection_any_segment(seg, nic, checks) ==
    IF seg.seq = U32_MAX /\ checks
    THEN [res |-> "Panic", tcb |-> NoTcb, nic |-> nic]
    ELSE accept_syn(seg, nic)

accept_connection(seg, nic, checks) ==
    IF ~seg.syn
    THEN \* 96-99
         [res |-> "Ok", tcb |-> NoTcb, nic |-> nic]
    ELSE IF seg.seq = U32_MAX /\ checks
    THEN \* 106
         [res |-> "Panic", tcb |-> NoTcb, nic |-> nic]
    ELSE accept_syn(seg, nic)

(***************************************************************************)
(* Tcb::on_packet (tcp.rs 162-225)                                         *)
(***************************************************************************)
Ret(res, tcb, nic) == [res |-> res, tcb |-> tcb, nic |-> nic]

\* 217-224
on_packet_fin(tcb, seg, nic) ==
    IF seg.fin /\ tcb.state = "FinWait2"
    THEN LET w == write(tcb, nic, 0)
         IN  IF w.res = "Err"
             THEN Ret("Err", w.tcb, w.nic)
             ELSE Ret("Ok", [w.tcb EXCEPT !.state = "TimeWait"], w.nic)
    ELSE Ret("Ok", tcb, nic)

\* on_packet_finwait1 without the test SND.UNA = ISS + 2
on_packet_finwait1_any_ack(tcb, seg, nic) ==
    LET t == IF tcb.state = "FinWait1"
             THEN [tcb EXCEPT !.state = "FinWait2"]
             ELSE tcb
    IN  on_packet_fin(t, seg, nic)

\* 210-215
on_packet_finwait1(tcb, seg, nic) ==
    LET t == IF tcb.state = "FinWait1"
                /\ tcb.send.una = wrapping_add(tcb.send.iss, N32(2))
             THEN [tcb EXCEPT !.state = "FinWait2"]
             ELSE tcb
    IN  on_packet_fin(t, seg, nic)

\* on_packet_estab sending the FIN in FIN_WAIT_1 as well
on_packet_estab_resends_fin(tcb, seg, nic) ==
    IF tcb.state \in {"Estab", "FinWait1"}
    THEN LET w == write([tcb EXCEPT !.send_tcp_header.fin = TRUE], nic, 0)
         IN  IF w.res = "Err"
             THEN Ret("Err", w.tcb, w.nic)
             ELSE on_packet_finwait1([w.tcb EXCEPT !.state = "FinWait1"],
                                     seg, w.nic)
    ELSE on_packet_finwait1(tcb, seg, nic)

\* 204-208
on_packet_estab(tcb, seg, nic) ==
    IF tcb.state = "Estab"
    THEN LET w == write([tcb EXCEPT !.send_tcp_header.fin = TRUE], nic, 0)
         IN  IF w.res = "Err"
             THEN Ret("Err", w.tcb, w.nic)
             ELSE on_packet_finwait1([w.tcb EXCEPT !.state = "FinWait1"],
                                     seg, w.nic)
    ELSE on_packet_finwait1(tcb, seg, nic)

\* on_packet_ack without the check of the acknowledgement number
on_packet_ack_unchecked(tcb, seg, nic) ==
    IF tcb.state \in {"Estab", "FinWait1", "FinWait2"}
    THEN LET t == [tcb EXCEPT !.send.una = seg.ackn]
         IN  IF seg.len # 0
             THEN Ret("Panic", t, nic)
             ELSE on_packet_estab(t, seg, nic)
    ELSE on_packet_estab(tcb, seg, nic)

\* 193-202
on_packet_ack(tcb, seg, nic) ==
    IF tcb.state \in {"Estab", "FinWait1", "FinWait2"}
    THEN IF ~is_between_values_wrapped(seg.ackn, tcb.send.una,
                                       wrapping_add(tcb.send.nxt, N32(1)))
         THEN Ret("Ok", tcb, nic)
         ELSE LET t == [tcb EXCEPT !.send.una = seg.ackn]
              IN  IF seg.len # 0
                  THEN Ret("Panic", t, nic)
                  ELSE on_packet_estab(t, seg, nic)
    ELSE on_packet_estab(tcb, seg, nic)

\* on_packet_synrcvd without the test of the state
on_packet_synrcvd_any_state(tcb, seg, nic) ==
    LET t == IF is_between_values_wrapped(
                       seg.ackn,
                       wrapping_sub(tcb.send.una, N32(1)),
                       wrapping_add(tcb.send.nxt, N32(1)))
             THEN [tcb EXCEPT !.state = "Estab"]
             ELSE tcb
    IN  on_packet_ack(t, seg, nic)

\* 181-191
on_packet_synrcvd(tcb, seg, nic) ==
    LET t == IF tcb.state = "SynRcvd"
                /\ is_between_values_wrapped(
                       seg.ackn,
                       wrapping_sub(tcb.send.una, N32(1)),
                       wrapping_add(tcb.send.nxt, N32(1)))
             THEN [tcb EXCEPT !.state = "Estab"]
             ELSE tcb
    IN  on_packet_ack(t, seg, nic)

on_packet_drops_rejected(tcb, seg, nic) ==
    LET v == is_segment_valid(tcb, seg)
    IN  IF ~v.is_valid
        THEN Ret("Ok", v.tcb, nic)
        ELSE IF ~seg.ack
        THEN Ret("Ok", v.tcb, nic)
        ELSE on_packet_synrcvd(v.tcb, seg, nic)

on_packet(tcb, seg, nic) ==
    LET v == is_segment_valid(tcb, seg)
    IN  IF ~v.is_valid
        THEN \* 169-173
             LET w == write(v.tcb, nic, 0)
             IN  Ret(w.res, w.tcb, w.nic)
        ELSE IF ~seg.ack
        THEN \* 175-177
             Ret("Ok", v.tcb, nic)
        ELSE on_packet_synrcvd(v.tcb, seg, nic)

(***************************************************************************)
(* The dispatch loop (main.rs 15-82).  pc is the position of main: "recv"  *)
(* blocked in Iface::recv, "dispatch" with a datagram in buf, "loop" after *)
(* the handler returned, "exit" after main returned or panicked.  last     *)
(* records the handler call just finished: the operation, its segment, the *)
(* map entry before it, its result and the datagrams the device accepted.  *)
(***************************************************************************)
Idle == [fn |-> "none"]

NoStep == [op |-> "none"]

NoBuf == [kind |-> "none"]

Step(op, k, seg, pre, r) ==
    [op |-> op, key |-> k, seg |-> seg, pre |-> pre,
     res |-> r.res, sent |-> r.nic.sent]

\* what the device has put on the wire for a key so far: the number of
\* datagrams with SYN and with FIN that Iface::send accepted (tcp.rs 271)
NoWire == [syn |-> 0, fin |-> 0]

Wire(w, sent) ==
    [syn |-> w.syn + Cardinality({i \in DOMAIN sent : sent[i].syn}),
     fin |-> w.fin + Cardinality({i \in DOMAIN sent : sent[i].fin})]

Init ==
    /\ connections = [k \in Keys |-> NoTcb]
    /\ pc = "recv"
    /\ buf = NoBuf
    /\ last = NoStep
    /\ probe = Idle
    /\ wire = [k \in Keys |-> NoWire]

\* main.rs 23: the device delivers one datagram
Receive ==
    /\ pc = "recv"
    /\ \/ buf' = [kind |-> "other"]
       \/ \E k \in Keys :
            \E seg \in IF connections[k] = NoTcb
                       THEN FirstSegments
                       ELSE NextSegments(connections[k].recv.irs) :
               buf' = [kind |-> "tcp", key |-> k, seg |-> seg]
    /\ pc' = "dispatch"
    /\ UNCHANGED <<connections, last, probe, wire>>

\* main.rs 23: the device read fails and main returns the error
RecvError ==
    /\ pc = "recv"
    /\ pc' = "exit"
    /\ UNCHANGED <<connections, buf, last, probe, wire>>

\* main.rs 37-44, 76-79: not IPv4, not TCP, or an undecodable TCP header
SkipDatagram ==
    /\ pc = "dispatch"
    /\ buf.kind = "other"
    /\ pc' = "recv"
    /\ buf' = NoBuf
    /\ UNCHANGED <<connections, last, probe, wire>>

\* main.rs 64-73: no entry for the key.  checks is whether the build has
\* overflow checks (a debug build has, a release build has not)
Accept(k) ==
    /\ pc = "dispatch"
    /\ buf.kind = "tcp"
    /\ buf.key = k
    /\ connections[k] = NoTcb
    /\ \E results \in NicResults, checks \in BOOLEAN :
         LET r == accept_connection(buf.seg, Nic(results), checks)
         IN  /\ connections' = IF r.res = "Ok" /\ r.tcb # NoTcb
                               THEN [connections EXCEPT ![k] = r.tcb]
                               ELSE connections
             /\ pc' = IF r.res = "Ok" THEN "loop" ELSE "exit"
             /\ last' = Step("accept_connection", k, buf.seg, NoTcb, r)
             /\ wire' = [wire EXCEPT ![k] = Wire(@, r.nic.sent)]
    /\ buf' = NoBuf
    /\ UNCHANGED probe

\* main.rs 58-63: the key has an entry
OnPacket(k) ==
    /\ pc = "dispatch"
    /\ buf.kind = "tcp"
    /\ buf.key = k
    /\ connections[k] # NoTcb
    /\ \E results \in NicResults :
         LET r == on_packet(connections[k], buf.seg, Nic(results))
         IN  /\ connections' = [connections EXCEPT ![k] = r.tcb]
             /\ pc' = IF r.res = "Ok" THEN "loop" ELSE "exit"
             /\ last' = Step("on_packet", k, buf.seg, connections[k], r)
             /\ wire' = [wire EXCEPT ![k] = Wire(@, r.nic.sent)]
    /\ buf' = NoBuf
    /\ UNCHANGED probe

\* main.rs 22: the next iteration of the loop
Loop ==
    /\ pc = "loop"
    /\ pc' = "recv"
    /\ last' = NoStep
    /\ UNCHANGED <<connections, buf, probe, wire>>

Next ==
    \/ Receive
    \/ RecvError
    \/ SkipDatagram
    \/ \E k \in Keys : Accept(k)
    \/ \E k \in Keys : OnPacket(k)
    \/ Loop

Spec == Init /\ [][Next]_vars

\* x lies in [RCV.NXT, RCV.NXT + RCV.WND): its distance from RCV.NXT,
\* modulo 2^32, is below the window
InWindow(x, recv) ==
    LET off == wrapping_sub(x, recv.nxt)
    IN  off.hi = 0 /\ off.lo < recv.wnd

(***************************************************************************)
(* Properties of the dispatch loop.  They read last, the handler call just *)
(* finished, and the map entry it left.                                    *)
(***************************************************************************)
Called(op) == last.op = op

Post == connections[last.key]

\* the TCB accept_connection returns for a SYN, when the send succeeds
AfterSyn(tcb) ==
    tcb = accept_syn(Segment(tcb.recv.irs, N32(0), tcb.recv.wnd,
                             TRUE, FALSE, FALSE, FALSE, 0),
                     Nic(<<TRUE>>)).tcb

\* the peer's ACK of our SYN|ACK
AckOfSyn(tcb, seg) ==
    /\ seg.ack /\ ~seg.syn /\ ~seg.fin /\ ~seg.rst
    /\ seg.len = 0
    /\ seg.seq = wrapping_add(tcb.recv.irs, N32(1))
    /\ seg.ackn = wrapping_add(tcb.send.iss, N32(1))

\* SEG.ACK lies in (SND.UNA, SND.NXT]
AckInSendWindow(send, ackn) ==
    LET d == wrapping_sub(ackn, send.una)
        w == wrapping_sub(send.nxt, send.una)
    IN  d # N32(0) /\ Le32(d, w)

\* an empty ACK: no payload and no flag but ACK
EmptyAck(d) == d.ack /\ ~d.syn /\ ~d.fin /\ ~d.rst /\ d.len = 0

\* the sequence numbers of the segment that lie in the receive window
InWindowUnits(recv, seg) ==
    Cardinality({i \in 0..(seg_len(seg) - 1) :
                    InWindow(wrapping_add(seg.seq, N32(i)), recv)})

\* C1: after accept_connection processed the peer's SYN and on_packet then
\* processes the peer's ACK of that SYN, the TCB is in ESTAB with
\* SND.UNA = SND.NXT = ISS + 1 and RCV.NXT = peer_ISS + 1, and processing the
\* ACK transmitted nothing.
C1_HandshakeEndsInEstab ==
    (Called("on_packet") /\ AfterSyn(last.pre) /\ AckOfSyn(last.pre, last.seg))
        => /\ Post.state = "Estab"
           /\ Post.send.una = wrapping_add(ISS, N32(1))
           /\ Post.send.nxt = wrapping_add(ISS, N32(1))
           /\ Post.recv.nxt = wrapping_add(last.pre.recv.irs, N32(1))
           /\ last.sent = <<>>

\* C2: accept_connection on a SYN returns a TCB in SYN_RCVD with
\* RCV.IRS = SEG.SEQ, RCV.NXT = SEG.SEQ + 1, RCV.WND = SEG.WND,
\* SND.ISS = SND.UNA = ISS, SND.NXT = ISS + 1 and the SYN flag of the template
\* cleared, having transmitted exactly one datagram: an empty SYN|ACK with
\* seq = ISS and ack = SEG.SEQ + 1.
C2_AcceptSynMakesSynRcvd ==
    (Called("accept_connection") /\ last.seg.syn /\ last.res = "Ok")
        => /\ Post # NoTcb
           /\ Post.state = "SynRcvd"
           /\ Post.recv.irs = last.seg.seq
           /\ Post.recv.nxt = wrapping_add(last.seg.seq, N32(1))
           /\ Post.recv.wnd = last.seg.wnd
           /\ Post.send.iss = ISS
           /\ Post.send.una = ISS
           /\ Post.send.nxt = wrapping_add(ISS, N32(1))
           /\ ~Post.send_tcp_header.syn
           /\ Len(last.sent) = 1
           /\ LET d == last.sent[1]
              IN  /\ d.syn /\ d.ack /\ ~d.fin /\ ~d.rst
                  /\ d.len = 0
                  /\ d.seq = ISS
                  /\ d.ackn = wrapping_add(last.seg.seq, N32(1))

\* S1's first step with the peer's window 2: SYN seq=1000 answered
C2_Witness ==
    /\ Called("accept_connection")
    /\ last.seg.syn
    /\ last.res = "Ok"
    /\ last.seg.seq = N32(1000)
    /\ last.seg.wnd = 2
    /\ Post.recv.nxt = N32(1001)
    /\ Len(last.sent) = 1

\* C3: a segment without SYN for a key that has no TCB is ignored:
\* accept_connection returns no TCB, nothing is inserted into the map and
\* nothing is transmitted.
C3_NonSynToUnknownKeyIgnored ==
    (Called("accept_connection") /\ ~last.seg.syn)
        => /\ last.res = "Ok"
           /\ connections[last.key] = NoTcb
           /\ last.sent = <<>>
           /\ pc = "loop"

\* a bare ACK to the unknown key
C3_Witness ==
    /\ Called("accept_connection")
    /\ ~last.seg.syn
    /\ last.seg.ack
    /\ connections[last.key] = NoTcb

\* a non-RST segment that fails the acceptability test, in a synchronised
\* state
RejectedInSync ==
    /\ Called("on_packet")
    /\ is_synchronised(last.pre.state)
    /\ ~last.seg.rst
    /\ ~segment_test(last.pre.recv, last.seg)

\* C4: in a synchronised state, on a non-RST segment that fails the
\* acceptability test, on_packet transmits exactly one datagram, an empty ACK
\* whose sequence number is SND.NXT and whose acknowledgement number is the
\* RCV.NXT the TCB holds when the ACK is framed and keeps afterwards, and it
\* changes neither the state nor SND.NXT.  (When the device refuses the
\* datagram nothing is transmitted; state and SND.NXT are unchanged too.)
C4_RejectedSegmentIsAcked ==
    RejectedInSync
        => /\ Post.state = last.pre.state
           /\ Post.send.nxt = last.pre.send.nxt
           /\ Len(last.sent) <= 1
           /\ last.res = "Ok"
                => /\ Len(last.sent) = 1
                   /\ EmptyAck(last.sent[1])
                   /\ last.sent[1].seq = Post.send.nxt
                   /\ last.sent[1].ackn = Post.recv.nxt

\* a segment below the window rejected in FIN_WAIT_1 and answered
C4_Witness ==
    /\ RejectedInSync
    /\ last.pre.state = "FinWait1"
    /\ last.res = "Ok"
    /\ Len(last.sent) = 1
    /\ last.sent[1].seq = N32(2)

\* C5: a segment rejected by the acceptability test leaves RCV.NXT unchanged
\* and the ACK that answers it carries that unchanged RCV.NXT.
C5_RejectedSegmentKeepsRcvNxt ==
    (Called("on_packet") /\ ~segment_test(last.pre.recv, last.seg))
        => /\ Post.recv.nxt = last.pre.recv.nxt
           /\ \A i \in 1..Len(last.sent) :
                 last.sent[i].ackn = last.pre.recv.nxt

\* C6: after on_packet accepts a segment, RCV.NXT has advanced (mod 2^32) by
\* exactly the number of sequence units of the segment that fall inside the
\* receive window [RCV.NXT, RCV.NXT + RCV.WND).
C6_RcvNxtAdvancesByInWindowUnits ==
    (Called("on_packet") /\ segment_test(last.pre.recv, last.seg))
        => Post.recv.nxt =
               wrapping_add(last.pre.recv.nxt,
                            N32(InWindowUnits(last.pre.recv, last.seg)))

\* C7: in SYN_RCVD, an ACK-bearing segment whose acknowledgement number is
\* outside (SND.UNA, SND.NXT] causes exactly one RST to be transmitted, with
\* sequence number SEG.ACK and no payload; SND.NXT is unchanged and the TCB
\* does not leave SYN_RCVD for a synchronised state.
C7_BadAckInSynRcvdIsReset ==
    (/\ Called("on_packet")
     /\ last.pre.state = "SynRcvd"
     /\ last.seg.ack
     /\ ~AckInSendWindow(last.pre.send, last.seg.ackn))
        => /\ Len(last.sent) = 1
           /\ last.sent[1].rst
           /\ last.sent[1].seq = last.seg.ackn
           /\ last.sent[1].len = 0
           /\ Post.send.nxt = last.pre.send.nxt
           /\ ~is_synchronised(Post.state)

\* the peer's FIN in FIN_WAIT_2: our FIN is acknowledged, the segment is the
\* next one expected, acknowledges SND.NXT and passes the acceptability test
FinInFinWait2 ==
    /\ Called("on_packet")
    /\ last.pre.state = "FinWait2"
    /\ last.pre.send.una = wrapping_add(ISS, N32(2))
    /\ last.pre.send.nxt = wrapping_add(ISS, N32(2))
    /\ last.seg.fin /\ last.seg.ack /\ ~last.seg.syn /\ ~last.seg.rst
    /\ last.seg.len = 0
    /\ last.seg.seq = last.pre.recv.nxt
    /\ last.seg.ackn = last.pre.send.nxt
    /\ segment_test(last.pre.recv, last.seg)

\* C11: in FIN_WAIT_2, an acceptable peer FIN with seq = RCV.NXT and
\* ack = SND.NXT is answered with one ACK (seq = SND.NXT, ack = SEG.SEQ + 1)
\* and the TCB enters TIME_WAIT.
C11_FinInFinWait2EntersTimeWait ==
    (FinInFinWait2 /\ last.res = "Ok")
        => /\ Post.state = "TimeWait"
           /\ Len(last.sent) = 1
           /\ EmptyAck(last.sent[1])
           /\ last.sent[1].seq = last.pre.send.nxt
           /\ last.sent[1].ackn = wrapping_add(last.seg.seq, N32(1))

\* C12: when the device send fails during a TCB operation the error reaches
\* the caller and the TCB is as it was before the operation: state, SND.UNA,
\* SND.NXT, RCV.NXT and the SYN and FIN flags of the template are unchanged.
C12_FailedSendLeavesTcbUnchanged ==
    (Called("on_packet") /\ last.res = "Err")
        => /\ pc = "exit"
           /\ Post.state = last.pre.state
           /\ Post.send.una = last.pre.send.una
           /\ Post.send.nxt = last.pre.send.nxt
           /\ Post.recv.nxt = last.pre.recv.nxt
           /\ Post.send_tcp_header.syn = last.pre.send_tcp_header.syn
           /\ Post.send_tcp_header.fin = last.pre.send_tcp_header.fin

\* a segment with the ACK flag, received in a synchronised state, whose
\* acknowledgement number is outside (SND.UNA, SND.NXT]
BadAckInSync ==
    /\ Called("on_packet")
    /\ is_synchronised(last.pre.state)
    /\ last.seg.ack
    /\ ~AckInSendWindow(last.pre.send, last.seg.ackn)

\* neither the state nor the send sequence variables moved
SendSideUnchanged ==
    /\ Post.state = last.pre.state
    /\ Post.send.una = last.pre.send.una
    /\ Post.send.nxt = last.pre.send.nxt

\* C13: in a synchronised state a segment whose acknowledgement number is not
\* in (SND.UNA, SND.NXT] is dropped silently whatever its sequence number: no
\* datagram is transmitted and state, SND.UNA, SND.NXT and RCV.NXT are kept.
C13_BadAckDroppedBeforeSegmentTest ==
    BadAckInSync
        => /\ last.res = "Ok"
           /\ last.sent = <<>>
           /\ SendSideUnchanged
           /\ Post.recv.nxt = last.pre.recv.nxt

\* C14: after any sequence of accept_connection and on_packet operations the
\* send variables of a connection satisfy
\* SND.UNA <= SND.NXT <= SND.UNA + SND.WND in wrapping sequence space: going
\* forward from SND.UNA, SND.NXT is met within SND.WND steps.
C14_SendVariablesOrdered ==
    \A k \in Keys :
        connections[k] # NoTcb
            => LET send == connections[k].send
               IN  Le32(wrapping_sub(send.nxt, send.una), N32(send.wnd))

\* an on_packet call in FIN_WAIT_1 took an acknowledgement of our FIN and
\* moved SND.UNA up to SND.NXT = ISS + 2
C14_Witness ==
    /\ Called("on_packet")
    /\ last.pre.state = "FinWait1"
    /\ last.pre.send.una # last.pre.send.nxt
    /\ Post.send.una = Post.send.nxt
    /\ Post.send.una = wrapping_add(ISS, N32(2))

\* C15: in ESTAB an acceptable peer segment carrying FIN with empty payload
\* is answered with one empty ACK whose acknowledgement number is
\* SEG.SEQ + 1, no FIN of our own is transmitted, and the TCB enters
\* CLOSE_WAIT.
C15_FinInEstabEntersCloseWait ==
    ( /\ Called("on_packet")
      /\ last.pre.state = "Estab"
      /\ last.seg.fin /\ ~last.seg.syn /\ ~last.seg.rst
      /\ last.seg.len = 0
      /\ segment_test(last.pre.recv, last.seg)
      /\ last.res = "Ok" )
        => /\ Len(last.sent) = 1
           /\ EmptyAck(last.sent[1])
           /\ last.sent[1].ackn = wrapping_add(last.seg.seq, N32(1))
           /\ Post.state = "CloseWait"

\* C16: accept_connection of a SYN completes without failure for every
\* SEG.SEQ, 0xFFFFFFFF included, and sets RCV.NXT = (SEG.SEQ + 1) mod 2^32.
\* A refused device send is the one failure set aside.
C16_AcceptWrapsRcvNxt ==
    ( /\ Called("accept_connection")
      /\ last.seg.syn
      /\ last.res # "Err" )
        => /\ last.res = "Ok"
           /\ Post # NoTcb
           /\ Post.recv.nxt = wrapping_add(last.seg.seq, N32(1))

\* the call left a TCB that had not had its FIN acknowledged in FIN_WAIT_2 or
\* beyond
EntersFinWait2 ==
    /\ Called("on_packet")
    /\ last.pre.state \notin {"FinWait2", "TimeWait"}
    /\ Post.state \in {"FinWait2", "TimeWait"}

\* C17: in every reachable state a TCB in FIN_WAIT_2 or TIME_WAIT has
\* SND.UNA = ISS + 2 and SND.UNA = SND.NXT, and FIN_WAIT_2 is entered from
\* FIN_WAIT_1 only, by a segment that passes the segment test and whose
\* acknowledgement number is in (SND.UNA, SND.NXT] and equals ISS + 2.
C17_FinWait2MeansFinAcked ==
    /\ \A k \in Keys :
           connections[k].state \in {"FinWait2", "TimeWait"}
               => /\ connections[k].send.una
                         = wrapping_add(connections[k].send.iss, N32(2))
                  /\ connections[k].send.una = connections[k].send.nxt
    /\ EntersFinWait2
           => /\ last.pre.state = "FinWait1"
              /\ segment_test(last.pre.recv, last.seg)
              /\ last.seg.ack
              /\ AckInSendWindow(last.pre.send, last.seg.ackn)
              /\ last.seg.ackn = wrapping_add(last.pre.send.iss, N32(2))

\* an ACK of our FIN, without a FIN of the peer, took FIN_WAIT_1 to FIN_WAIT_2
C17_Witness ==
    /\ EntersFinWait2
    /\ last.pre.state = "FinWait1"
    /\ ~last.seg.fin
    /\ Post.state = "FinWait2"
    /\ Post.send.una = wrapping_add(ISS, N32(2))

\* C18: in every reachable state a connection in a synchronised state has
\* had its SYN acknowledged, SND.UNA >= ISS + 1 (SND.UNA is past ISS and not
\* past SND.NXT); an ACK in SYN_RCVD whose acknowledgement number is ISS
\* never moves the TCB to ESTAB.
C18_SynchronisedMeansSynAcked ==
    /\ \A k \in Keys :
           (connections[k] # NoTcb /\ is_synchronised(connections[k].state))
               => LET send == connections[k].send
                  IN  /\ send.una # send.iss
                      /\ Le32(wrapping_sub(send.una, send.iss),
                              wrapping_sub(send.nxt, send.iss))
    /\ ( /\ Called("on_packet")
         /\ last.pre.state = "SynRcvd"
         /\ last.seg.ack
         /\ last.seg.ackn = last.pre.send.iss )
           => Post.state = "SynRcvd"

\* the rank of a state on the path SYN_RCVD, ESTAB, FIN_WAIT_1, FIN_WAIT_2,
\* TIME_WAIT
Rank(state) ==
    CASE state = "SynRcvd"  -> 0
      [] state = "Estab"    -> 1
      [] state = "FinWait1" -> 2
      [] state = "FinWait2" -> 3
      [] state = "TimeWait" -> 4

\* C19: no on_packet call moves a TCB to an earlier state of SYN_RCVD,
\* ESTAB, FIN_WAIT_1, FIN_WAIT_2, TIME_WAIT, and a call on a TCB in
\* TIME_WAIT leaves the state, SND.UNA and SND.NXT as they were.
C19_StateOnlyMovesForward ==
    Called("on_packet")
        => /\ Post.state \in States
           /\ Rank(Post.state) >= Rank(last.pre.state)
           /\ last.pre.state = "TimeWait" => SendSideUnchanged

\* a segment arrives in TIME_WAIT, fails the segment test and is answered
\* with an ACK
C19_Witness ==
    /\ Called("on_packet")
    /\ last.pre.state = "TimeWait"
    /\ Len(last.sent) = 1
    /\ Post.state = "TimeWait"

\* C20: over the life of a TCB exactly one transmitted datagram carries SYN,
\* the SYN|ACK of accept_connection, and at most one carries FIN; SND.NXT is
\* ISS + 1 or ISS + 2 after accept_connection, and ISS + 2 once the FIN is
\* out.
C20_OneSynAtMostOneFin ==
    /\ \A k \in Keys :
           IF connections[k] = NoTcb
           THEN wire[k] = NoWire
           ELSE /\ wire[k].syn = 1
                /\ wire[k].fin <= 1
                /\ connections[k].send.nxt
                       \in {wrapping_add(ISS, N32(1)), wrapping_add(ISS, N32(2))}
                /\ wire[k].fin = 1
                       => connections[k].send.nxt = wrapping_add(ISS, N32(2))
    /\ (Called("accept_connection") /\ Post # NoTcb)
           => /\ Len(last.sent) = 1
              /\ last.sent[1].syn /\ last.sent[1].ack /\ ~last.sent[1].fin
    /\ Called("on_packet")
           => \A i \in DOMAIN last.sent : ~last.sent[i].syn

\* a TCB that has sent its SYN|ACK and its FIN transmits once more, an ACK
\* in TIME_WAIT, and the counts stay at one SYN and one FIN
C20_Witness ==
    /\ Called("on_packet")
    /\ last.pre.state = "TimeWait"
    /\ Len(last.sent) = 1
    /\ wire[last.key] = [syn |-> 1, fin |-> 1]

(***************************************************************************)
(* Harnesses that apply one function of tcp.rs to inputs drawn from        *)
(* bounded sets.  probe holds the inputs and, once called, the result; the *)
(* dispatch loop does not run.                                             *)
(***************************************************************************)
\* distances 0..MaxDist between sequence numbers, beside the large ones
MaxDist == 3

HALF32 == U32(2^15, 0)

NoLoop ==
    /\ connections = [k \in Keys |-> NoTcb]
    /\ pc = "probe"
    /\ buf = NoBuf
    /\ last = NoStep
    /\ wire = [k \in Keys |-> NoWire]

BaseVals ==
    {N32(0), N32(1), N32(1000), U32(2^15 - 1, B16 - 1), HALF32,
     U32(B16 - 1, B16 - 16), U32(B16 - 1, B16 - 2), U32_MAX}

Dists ==
    {N32(i) : i \in 0..MaxDist}
        \cup {U32(2^15 - 1, B16 - 1), HALF32, U32(B16 - 1, B16 - 2), U32_MAX}

\* ---- is_between_values_wrapped(a + k, a, a + n)
InitBetween ==
    /\ NoLoop
    /\ \E a \in BaseVals, k \in Dists, n \in Dists :
         probe = [fn |-> "is_between_values_wrapped", called |-> FALSE,
                  a |-> a, k |-> k, n |-> n, result |-> FALSE]

CallBetween ==
    /\ probe.fn = "is_between_values_wrapped"
    /\ ~probe.called
    /\ probe' = [probe EXCEPT
                    !.called = TRUE,
                    !.result = is_between_values_wrapped(
                                   wrapping_add(probe.a, probe.k),
                                   probe.a,
                                   wrapping_add(probe.a, probe.n))]
    /\ UNCHANGED <<connections, pc, buf, last, wire>>

SpecBetween == InitBetween /\ [][CallBetween]_vars

BetweenCalled == probe.fn = "is_between_values_wrapped" /\ probe.called

\* C9: for all u32 a, k, n, is_between_values_wrapped(a + k, a, a + n) is
\* true iff 0 < k < n; so it is false whenever start = end (n = 0) and true
\* for value 0, start 0xFFFFFFFF, end 1.
C9_BetweenIffStrictlyInside ==
    BetweenCalled =>
        (probe.result <=> (Lt32(N32(0), probe.k) /\ Lt32(probe.k, probe.n)))

\* the wrap case of the claim: value 0, start 0xFFFFFFFF, end 1 is inside
C9_Witness ==
    /\ BetweenCalled
    /\ probe.a = U32_MAX
    /\ probe.k = N32(1)
    /\ probe.n = N32(2)
    /\ wrapping_add(probe.a, probe.k) = N32(0)
    /\ wrapping_add(probe.a, probe.n) = N32(1)
    /\ probe.result

\* ---- Tcb::is_segment_valid on a TCB whose receive variables are drawn
ProbeTcb(state, snd_nxt, rcv_nxt, rcv_wnd, syn, fin) ==
    [state |-> state,
     send |-> [iss |-> ISS, una |-> ISS, nxt |-> snd_nxt, wnd |-> SND_WND,
               up |-> FALSE, wl1 |-> N32(0), wl2 |-> N32(0)],
     recv |-> [irs |-> wrapping_sub(rcv_nxt, N32(1)), nxt |-> rcv_nxt,
               wnd |-> rcv_wnd, up |-> FALSE],
     send_ip_header |-> [payload_len |-> TCP_HEADER_LEN, ttl |-> IP_TTL],
     send_tcp_header |-> [window_size |-> SND_WND, syn |-> syn, ack |-> TRUE,
                          fin |-> fin, rst |-> FALSE]]

RcvNxtVals == {N32(1001), U32(B16 - 1, B16 - 16), U32_MAX, N32(0)}

RcvWndVals == {0, 1, 32, B16 - 1}

\* SEG.SEQ - RCV.NXT: behind the window, at its start, inside, at its end
SeqDists ==
    {N32(i) : i \in 0..MaxDist}
        \cup {N32(21), N32(31), N32(32), N32(33), N32(B16 - 2), N32(B16 - 1),
              N32(B16), HALF32, U32(B16 - 1, B16 - 5), U32(B16 - 1, B16 - 4),
              U32_MAX}

PayloadLens == {0, 1, 4, 5, 1460}

InitSeg ==
    /\ NoLoop
    /\ \E nxt \in RcvNxtVals, wnd \in RcvWndVals, d \in SeqDists,
          len \in PayloadLens, syn \in BOOLEAN, fin \in BOOLEAN :
         probe = [fn |-> "is_segment_valid", called |-> FALSE,
                  tcb |-> ProbeTcb("Estab", N32(1), nxt, wnd, FALSE, FALSE),
                  seg |-> Segment(wrapping_add(nxt, d), N32(1), 2,
                                  syn, TRUE, fin, FALSE, len),
                  result |-> FALSE, rcv_nxt |-> nxt]

CallSegValid ==
    /\ probe.fn = "is_segment_valid"
    /\ ~probe.called
    /\ LET v == is_segment_valid(probe.tcb, probe.seg)
       IN  probe' = [probe EXCEPT !.called = TRUE,
                                  !.result = v.is_valid,
                                  !.rcv_nxt = v.tcb.recv.nxt]
    /\ UNCHANGED <<connections, pc, buf, last, wire>>

SpecSeg == InitSeg /\ [][CallSegValid]_vars

\* the table of RFC 793 section 3.3
Rfc793Acceptable(recv, seg) ==
    LET slen == seg_len(seg)
    IN  CASE slen = 0 /\ recv.wnd = 0 -> seg.seq = recv.nxt
          [] slen = 0 /\ recv.wnd > 0 -> InWindow(seg.seq, recv)
          [] slen > 0 /\ recv.wnd = 0 -> FALSE
          [] slen > 0 /\ recv.wnd > 0 ->
                \/ InWindow(seg.seq, recv)
                \/ InWindow(wrapping_add(seg.seq, N32(slen - 1)), recv)

SegCalled == probe.fn = "is_segment_valid" /\ probe.called

\* C10: the result of the segment-acceptability test equals the RFC 793
\* table for every SEG.SEQ, RCV.NXT, RCV.WND and segment length, across the
\* 2^32 wrap.
C10_SegmentTestIsRfc793Table ==
    SegCalled =>
        (probe.result <=> Rfc793Acceptable(probe.tcb.recv, probe.seg))

\* S5: RCV.NXT = 0xFFFFFFF0, RCV.WND = 32, SEQ = 5, 4 bytes: acceptable
C10_Witness ==
    /\ SegCalled
    /\ probe.tcb.recv.nxt = U32(B16 - 1, B16 - 16)
    /\ probe.tcb.recv.wnd = 32
    /\ probe.seg.seq = N32(5)
    /\ probe.seg.len = 4
    /\ ~probe.seg.syn /\ ~probe.seg.fin
    /\ probe.result

\* ---- Tcb::write on a TCB whose SND.NXT and template flags are drawn:
\* write is called MaxWrites times; between two calls the caller may set
\* the FIN flag of the template, as on_packet does at line 205
MaxWrites == 2

SndNxtVals == {N32(0), N32(1), U32(0, B16 - 1), U32(B16 - 1, B16 - 2), U32_MAX}

WritePayloads == {0, 4, 1460, 1461, 2000}

InitWrite ==
    /\ NoLoop
    /\ \E nxt \in SndNxtVals, syn \in BOOLEAN, fin \in BOOLEAN :
         probe = [fn |-> "write", calls |-> 0, op |-> "none",
                  tcb |-> ProbeTcb("Estab", nxt, N32(1001), 2, syn, fin)]

CallWrite ==
    /\ probe.fn = "write"
    /\ probe.calls < MaxWrites
    /\ \E payload_len \in WritePayloads, results \in NicResults :
         LET w == write(probe.tcb, Nic(results), payload_len)
         IN  probe' = [fn |-> "write", calls |-> probe.calls + 1,
                       op |-> "write", tcb |-> w.tcb, pre |-> probe.tcb,
                       payload_len |-> payload_len, res |-> w.res,
                       sent |-> w.nic.sent, payload_bytes |-> w.payload_bytes]
    /\ UNCHANGED <<connections, pc, buf, last, wire>>

SetFin ==
    /\ probe.fn = "write"
    /\ probe.calls < MaxWrites
    /\ ~probe.tcb.send_tcp_header.fin
    /\ probe' = [fn |-> "write", calls |-> probe.calls, op |-> "set_fin",
                 tcb |-> [probe.tcb EXCEPT !.send_tcp_header.fin = TRUE]]
    /\ UNCHANGED <<connections, pc, buf, last, wire>>

NextWrite == CallWrite \/ SetFin

SpecWrite == InitWrite /\ [][NextWrite]_vars

Bit(b) == IF b THEN 1 ELSE 0

\* a write whose datagram the device accepted
Transmitted == probe.fn = "write" /\ probe.op = "write" /\ probe.res = "Ok"

\* C8: every transmission by write sends one datagram carrying the template's
\* SYN and FIN flags and min(payload_len, MTU - 40) payload bytes, increases
\* SND.NXT by that payload length + 1 for SYN + 1 for FIN (mod 2^32), and
\* leaves the SYN and FIN flags of the template cleared.
C8_WriteAdvancesSndNxtAndClearsFlags ==
    Transmitted =>
        /\ Len(probe.sent) = 1
        /\ LET d == probe.sent[1]
               n == Min(probe.payload_len,
                        ETH_MTU - IP_HEADER_LEN - TCP_HEADER_LEN)
           IN  /\ d.len = n
               /\ d.syn = probe.pre.send_tcp_header.syn
               /\ d.fin = probe.pre.send_tcp_header.fin
               /\ d.seq = probe.pre.send.nxt
               /\ probe.tcb.send.nxt =
                      wrapping_add(probe.pre.send.nxt,
                                   N32(n + Bit(d.syn) + Bit(d.fin)))
        /\ ~probe.tcb.send_tcp_header.syn
        /\ ~probe.tcb.send_tcp_header.fin

\* a transmission that carries SYN, FIN and a payload cut at the MTU, from
\* SND.NXT = 0xFFFFFFFE: SND.NXT wraps to 1460
C8_Witness ==
    /\ Transmitted
    /\ probe.pre.send.nxt = U32(B16 - 1, B16 - 2)
    /\ probe.payload_len = 2000
    /\ probe.sent[1].syn
    /\ probe.sent[1].fin
    /\ probe.sent[1].len = 1460
    /\ probe.tcb.send.nxt = N32(1460)

====
